---------------------------- MODULE Spec2Model ----------------------------
(***************************************************************************)
(* Court of Accounts publications scraper                                  *)
(* (src/src/moroccan_parliament_scraper/core/court_accounts_scraper.py).   *)
(*                                                                         *)
(* The model follows one CourtOfAccountsScraper object from its            *)
(* construction through run(): the existing-snapshot check, the retrying   *)
(* fetch with proxy rotation, listing extraction with the per-record       *)
(* detail merge, deduplication and the snapshot write.  The web site, the  *)
(* outcome of every HTTP attempt and of every file write are chosen by the *)
(* environment.  Pure functions of the scraper are operators; they are     *)
(* also exercised alone by the specification SpecDedup.                    *)
(* SpecFetch runs the fetch layer under every retry and proxy setting,     *)
(* SpecRerun calls run() repeatedly on one scraper, SpecLive is Spec with  *)
(* every enabled step eventually taken.  The service's start_scraping is   *)
(* modelled as far as it copies the scraper's results.                     *)
(*                                                                         *)
(* Text that the code inspects character by character (titles, dates) is   *)
(* a sequence of one-character strings; " " is the whitespace character.   *)
(* Python's None and "attribute not set" are the empty tuple <<>> and a    *)
(* present value v is <<v>>.  A dict is a function on its keys.            *)
(***************************************************************************)
EXTENDS Integers, Sequences, FiniteSets, TLC

(***************************************************************************)
(* Bounds of the model.                                                    *)
(***************************************************************************)
MaxRetries == 2
MaxDelay == 1
MaxItems == 2
MaxDedupLen == 3
MaxRuns == 2

None == <<>>
Some(v) == <<v>>

EmptyDict == <<>>

\* dict.update(other): every key of other is set, the other keys stay.
DictUpdate(d, other) ==
    [k \in (DOMAIN d) \cup (DOMAIN other) |->
        IF k \in DOMAIN other THEN other[k] ELSE d[k]]

RECURSIVE LStrip(_)
LStrip(s) == IF s # <<>> /\ Head(s) = " " THEN LStrip(Tail(s)) ELSE s

RECURSIVE RStrip(_)
RStrip(s) ==
    IF s # <<>> /\ s[Len(s)] = " " THEN RStrip(SubSeq(s, 1, Len(s) - 1)) ELSE s

\* str.strip() and get_text(strip=True) of a single text node.
Strip(s) == RStrip(LStrip(s))

Digits == {"0", "1", "2", "3", "4", "5", "6", "7", "8", "9"}

DigitValue(c) ==
    CASE c = "0" -> 0 [] c = "1" -> 1 [] c = "2" -> 2 [] c = "3" -> 3
      [] c = "4" -> 4 [] c = "5" -> 5 [] c = "6" -> 6 [] c = "7" -> 7
      [] c = "8" -> 8 [] c = "9" -> 9

\* re.search(r'(\d{4})', text): the leftmost four consecutive digits.
FourDigitMatch(text) ==
    LET starts == {i \in 1..(Len(text) - 3) :
                      \A j \in 0..3 : text[i + j] \in Digits}
    IN  IF starts = {} THEN None
        ELSE LET i == CHOOSE x \in starts : \A y \in starts : x <= y
             IN  Some(SubSeq(text, i, i + 3))

\* int() of a four-digit match.
IntOfDigits(ds) ==
    DigitValue(ds[1]) * 1000 + DigitValue(ds[2]) * 100
        + DigitValue(ds[3]) * 10 + DigitValue(ds[4])


(***************************************************************************)
(* Listing extraction of one item node.                                    *)
(***************************************************************************)
CurrentYear == 2025

DigitChar(n) ==
    CASE n = 0 -> "0" [] n = 1 -> "1" [] n = 2 -> "2" [] n = 3 -> "3"
      [] n = 4 -> "4" [] n = 5 -> "5" [] n = 6 -> "6" [] n = 7 -> "7"
      [] n = 8 -> "8" [] n = 9 -> "9"

\* str(self.current_year) for a four-digit year.
StrOfYear(y) ==
    << DigitChar(y \div 1000), DigitChar((y \div 100) % 10),
       DigitChar((y \div 10) % 10), DigitChar(y % 10) >>

BaseUrl == "https://www.courdescomptes.ma"
PublicationsUrl == "https://www.courdescomptes.ma/publications/"

\* category_map.get(category_attr, category_attr)
CategoryMap(c) ==
    CASE c = "rapport-annuel" -> "Rapport annuel"
      [] c = "rapport-thematique" -> "Rapport thematique"
      [] c = "rapport-particulier" -> "Rapport particulier"
      [] c = "rapport-partis-politiques" -> "Rapport partis politiques"
      [] c = "syntheses-des-missions-crc" -> "Syntheses des missions CRC"
      [] c = "arret" -> "Arret"
      [] c = "refere" -> "Refere"
      [] c = "formulaire" -> "Formulaire"
      [] OTHER -> c

\* The dict built at the top of _extract_publication_from_item.  scraped_at
\* is the wall-clock reading at that moment, an opaque value here.
NewPublication(base_url) ==
    [title |-> <<>>, date |-> <<>>, year |-> None, category |-> "",
     description |-> "", pdf_url |-> "", pdf_filename |-> "", url |-> "",
     scraped_at |-> "now", source_url |-> base_url]

\* _extract_publication_from_item as a buggy variant would be: the record is
\* returned whether or not a title was found.
ExtractPublicationFromItemNoTitleCheck(item, base_url) ==
    LET p0 == NewPublication(base_url)
        p1 == [p0 EXCEPT !.title = Strip(item.data_title)]
        p2 == IF item.time # None
              THEN [p1 EXCEPT !.date = Strip(item.time[1])]
              ELSE p1
    IN  Some(p2)

\* _extract_publication_from_item: None, or Some(publication).
\* An item is [data_time, data_title, data_cat, time, a, h2]: the three
\* attributes (an absent attribute reads as the empty string), and the text
\* of the first <time>, the href of the first <a> and the text of the first
\* <h2> if the element exists.
ExtractPublicationFromItem(item, base_url) ==
    LET p0 == NewPublication(base_url)
        title == Strip(item.data_title)
        p1 == IF title # <<>> THEN [p0 EXCEPT !.title = title] ELSE p0
        cat == IF item.data_cat = " " THEN "" ELSE item.data_cat
        p2 == IF cat # "" THEN [p1 EXCEPT !.category = CategoryMap(cat)] ELSE p1
        p3 == IF item.time # None
              THEN LET date_text == Strip(item.time[1])
                       year_match == FourDigitMatch(date_text)
                   IN  [p2 EXCEPT !.date = date_text,
                                  !.year = IF year_match # None
                                           THEN Some(IntOfDigits(year_match[1]))
                                           ELSE Some(CurrentYear)]
              ELSE p2
        p4 == IF item.a # None THEN [p3 EXCEPT !.url = item.a[1]] ELSE p3
        p5 == IF p4.title = <<>> /\ item.h2 # None
              THEN [p4 EXCEPT !.title = Strip(item.h2[1])]
              ELSE p4
    IN  IF p5.title # <<>> THEN Some(p5) ELSE None

\* soup.find_all('div', class_='item', attrs={'data-time': str(current_year)})
RECURSIVE FindAllItems(_)
FindAllItems(page) ==
    IF page = <<>> THEN <<>>
    ELSE IF Head(page).data_time = StrOfYear(CurrentYear)
         THEN <<Head(page)>> \o FindAllItems(Tail(page))
         ELSE FindAllItems(Tail(page))

(***************************************************************************)
(* Detail extraction.  A detail page is given by what the parser finds on  *)
(* it: [raises, description, pdf_files]; raises says that parsing it       *)
(* throws.                                                                 *)
(***************************************************************************)
\* The details dict returned for a page that parses.
ExtractDetailFields(page) ==
    LET details == [description |-> page.description, author |-> "",
                    pdf_files |-> page.pdf_files, additional_files |-> <<>>,
                    full_content |-> "", arabic_version_url |-> "",
                    language_versions |-> EmptyDict,
                    publication_details |->
                        IF page.extracted_date = None THEN EmptyDict
                        ELSE [extracted_date |-> page.extracted_date[1]]]
    IN  IF details.pdf_files # <<>>
        THEN DictUpdate(details, [pdf_url |-> details.pdf_files[1].url,
                                  pdf_filename |-> details.pdf_files[1].filename])
        ELSE details

\* publication_data.update(detailed_data) as a buggy variant would be: the
\* detail fields are dropped.
MergeDetailsDropped(publication_data, detailed_data) == publication_data

\* A variant in which the date found in the detail page replaces the date of
\* the listing.
MergeDetailsOverridingDate(publication_data, detailed_data) ==
    LET merged == DictUpdate(publication_data, detailed_data)
    IN  IF "extracted_date" \in DOMAIN detailed_data.publication_details
        THEN [merged EXCEPT
                 !.date = detailed_data.publication_details.extracted_date]
        ELSE merged

\* publication_data.update(detailed_data)
MergeDetails(publication_data, detailed_data) ==
    DictUpdate(publication_data, detailed_data)

(***************************************************************************)
(* Deduplication (the loop of scrape_publications).                        *)
(***************************************************************************)
\* pub_key = (pub['title'], pub['date']): a tuple of the two texts.
PubKey(pub) == <<pub.title, pub.date>>

RECURSIVE DedupLoop(_, _, _)
DedupLoop(publications, seen_publications, unique_publications) ==
    IF publications = <<>> THEN unique_publications
    ELSE LET pub == Head(publications)
             pub_key == PubKey(pub)
         IN  IF pub_key \notin seen_publications
             THEN DedupLoop(Tail(publications),
                            seen_publications \cup {pub_key},
                            Append(unique_publications, pub))
             ELSE DedupLoop(Tail(publications), seen_publications,
                            unique_publications)

\* A buggy variant: duplicates are removed from the list being iterated, so
\* the element after each removed one is skipped.
RECURSIVE DedupRemoveLoop(_, _, _)
DedupRemoveLoop(list, i, seen) ==
    IF i > Len(list) THEN list
    ELSE IF PubKey(list[i]) \in seen
         THEN DedupRemoveLoop(SubSeq(list, 1, i - 1) \o SubSeq(list, i + 1, Len(list)),
                              i + 1, seen)
         ELSE DedupRemoveLoop(list, i + 1, seen \cup {PubKey(list[i])})

DedupRemoveWhileIterating(publications) == DedupRemoveLoop(publications, 1, {})

\* A buggy variant: the key is the title alone.
RECURSIVE DedupByTitleLoop(_, _, _)
DedupByTitleLoop(publications, seen, unique) ==
    IF publications = <<>> THEN unique
    ELSE IF Head(publications).title \notin seen
         THEN DedupByTitleLoop(Tail(publications),
                               seen \cup {Head(publications).title},
                               Append(unique, Head(publications)))
         ELSE DedupByTitleLoop(Tail(publications), seen, unique)

DedupByTitle(publications) == DedupByTitleLoop(publications, {}, <<>>)

Dedup(publications) == DedupLoop(publications, {}, <<>>)

(***************************************************************************)
(* Proxy handling.  session is None until _create_session has returned,    *)
(* then Some(proxies) with proxies the session's proxies dict;             *)
(* current_proxy_index is None until __init__ assigns it.                  *)
(***************************************************************************)
\* _set_proxy on a session whose proxies dict is given; index is the value
\* of self.current_proxy_index.
SetProxy(proxies_list, index, proxies) ==
    IF proxies_list # <<>>
    THEN DictUpdate(proxies, proxies_list[(index % Len(proxies_list)) + 1])
    ELSE proxies

\* _set_proxy reads self.current_proxy_index only when the list is not
\* empty; reading it before __init__ has assigned it raises AttributeError.
SetProxyRaises(proxies_list, index_attr) ==
    proxies_list # <<>> /\ index_attr = None

\* _rotate_proxy: the new cursor and session proxies, and whether it rotated.
RotateProxy(cfg, index, proxies) ==
    IF cfg.enable_proxies /\ cfg.proxy_rotation
    THEN [index |-> index + 1,
          proxies |-> SetProxy(cfg.proxies, index + 1, proxies),
          rotated |-> TRUE]
    ELSE [index |-> index, proxies |-> proxies, rotated |-> FALSE]

(***************************************************************************)
(* The snapshot file.  A file is [kind, total_items, duplicate_checking,   *)
(* data]; kind is "missing", "unreadable" (it cannot be opened or is not   *)
(* JSON, a truncated document included), "notobject" (JSON that is no      *)
(* object) or "object".  total_items is None when the object has no such   *)
(* field, else Some([num, v]): a number v, or (num false) a value that is  *)
(* no number, such as null or a string.                                    *)
(***************************************************************************)
Number(n) == [num |-> TRUE, v |-> n]
NotANumber == [num |-> FALSE, v |-> 0]

MissingFile ==
    [kind |-> "missing", total_items |-> None, duplicate_checking |-> "",
     data |-> <<>>]
UnreadableFile ==
    [kind |-> "unreadable", total_items |-> None, duplicate_checking |-> "",
     data |-> <<>>]
NotObjectFile ==
    [kind |-> "notobject", total_items |-> None, duplicate_checking |-> "",
     data |-> <<>>]
ObjectFile(total, data) ==
    [kind |-> "object", total_items |-> total, duplicate_checking |-> "Enabled",
     data |-> data]

\* A variant without the except clause: what a file that cannot be read as a
\* JSON object gives is no count.
CheckExistingDataUncaught(f) ==
    IF f.kind = "missing" THEN Number(0)
    ELSE IF f.kind \in {"unreadable", "notobject"} THEN NotANumber
    ELSE IF f.total_items = None THEN Number(0)
    ELSE f.total_items[1]

\* _check_existing_data: the value it returns.
CheckExistingData(f) ==
    IF f.kind = "missing" THEN Number(0)
    ELSE IF f.kind \in {"unreadable", "notobject"} THEN Number(0)
    ELSE IF f.total_items = None THEN Number(0)
    ELSE f.total_items[1]

\* A buggy variant: the document holds the first record only.
OutputDataFirstOnly(results, force) ==
    [kind |-> "object", total_items |-> Some(Number(Len(results))),
     duplicate_checking |-> IF ~force THEN "Enabled" ELSE "Disabled",
     data |-> SubSeq(results, 1, 1)]

\* The document save_results writes.
OutputData(results, force) ==
    [kind |-> "object", total_items |-> Some(Number(Len(results))),
     duplicate_checking |-> IF ~force THEN "Enabled" ELSE "Disabled",
     data |-> results]

(***************************************************************************)
(* What the site may serve.                                                *)
(***************************************************************************)
SeqsUpTo(S, n) == UNION {[1..k -> S] : k \in 0..n}

Item(data_time, data_title, data_cat, time, a, h2) ==
    [data_time |-> data_time, data_title |-> data_title, data_cat |-> data_cat,
     time |-> time, a |-> a, h2 |-> h2]

ThisYear == <<"2", "0", "2", "5">>
LastYear == <<"2", "0", "2", "4">>
DateWithYear == <<"9", " ", "2", "0", "2", "4">>
DateNoYear == <<"j", "a", "n">>

\* Item nodes of a listing page: a titled item with a detail link; an item
\* with the same title and date, another category and a link without href;
\* the same title with another date and no link; an item titled by its
\* heading only; an item with neither title nor heading text; an item of
\* another year.
RunItems ==
    { Item(ThisYear, <<" ", "A", " ">>, "rapport-annuel", Some(DateWithYear),
           Some("/p/a"), None),
      Item(ThisYear, <<"A">>, "arret", Some(DateWithYear), Some(""), None),
      Item(ThisYear, <<"A">>, "", Some(DateNoYear), None, None),
      Item(ThisYear, <<" ">>, " ", None, Some("/p/b"), Some(<<" ", "B">>)),
      Item(ThisYear, <<>>, "autre", Some(DateWithYear), Some("/p/x"),
           Some(<<" ">>)),
      Item(LastYear, <<"B">>, "refere", None, Some("/p/b"), None) }

PdfFile ==
    [url |-> "/docs/r.pdf", filename |-> "r.pdf", title |-> "r.pdf",
     type |-> "pdf"]

\* The first date the date patterns find in the text of a detail page.
ExtractedDate == << "2", "0", "2", "4", "-", "0", "1", "-", "0", "1" >>

\* Detail pages: one with a description, a PDF link and a date in its text,
\* one with none of them, and one with all of them whose parsing throws
\* at a later step.  Each page is given by what the steps of the extraction
\* find in it.
DetailPages ==
    { [raises |-> FALSE, description |-> "D", pdf_files |-> <<PdfFile>>,
       extracted_date |-> Some(ExtractedDate)],
      [raises |-> FALSE, description |-> "", pdf_files |-> <<>>,
       extracted_date |-> None],
      [raises |-> TRUE, description |-> "D", pdf_files |-> <<PdfFile>>,
       extracted_date |-> Some(ExtractedDate)] }

\* The listing pages of up to n item nodes.
ListingPages(n) == SeqsUpTo(RunItems, n)

(***************************************************************************)
(* State.                                                                  *)
(***************************************************************************)
VARIABLES
    config,               \* the resolved settings: enable_proxies,
                          \* proxy_rotation, proxies, retry_attempts, delay
    force_rescrape,       \* self.force_rescrape
    world,                \* the extent of the environment: the longest
                          \* listing page served, the run() calls made,
                          \* the max_pages arguments given
    file,                 \* the year-named snapshot file
    pc,                   \* where the scraper is
    session,              \* self.session: None, or Some(its proxies dict)
    current_proxy_index,  \* self.current_proxy_index: None, or Some(n)
    results,              \* self.results
    publication_items,    \* the item nodes found on the listing page
    idx,                  \* the position of the extraction loop in them
    publications,         \* the list extract_publications_from_page builds
    publication_data,     \* the record whose detail page is being fetched
    req,                  \* the _make_request call in progress
    ret,                  \* what run() returned: None, or Some(boolean)
    outcome,              \* the terminal state of the run
    http_attempts,        \* session.get calls made by this run
    writes,               \* complete snapshot writes made by this run
    run_file,             \* the snapshot file as it was when run() began
    trace,                \* per item node handled: what became of it
    runs,                 \* run() invocations so far
    max_pages,            \* the max_pages argument of the run() in progress
    run_results,          \* self.results as it was when run() began
    events,               \* what the run has done so far, in order
    last_scraped_data,    \* the service's copy of the last extracted records
    response,             \* what start_scraping returned: None, or Some(..)
    is_running,           \* the service's is_running flag
    scraper,              \* the service's scraper handle: None, or Some(id)
    last_run,             \* the service's last_run: None, or Some(stamp)
    calls,                \* per caller: its start_scraping call in progress
    stops,                \* stop_scraping calls made
    scheduling,           \* "loop": the calls run one after the other on
                          \* one event loop; "threads": their statements
                          \* interleave
    arg,                  \* the input of a function exercised alone
    res                   \* its outputs, one per application

vars == << config, force_rescrape, world, file, pc, session,
           current_proxy_index, results, publication_items, idx,
           publications, publication_data, req, ret, outcome,
           http_attempts, writes, run_file, trace, runs, max_pages,
           run_results, events, last_scraped_data, response, is_running,
           scraper, last_run, calls, stops, scheduling, arg, res >>

cfgVars == << config, force_rescrape, world, arg, res >>
proxyVars == << session, current_proxy_index >>
loopVars == << publication_items, idx, publications, publication_data, trace >>
runVars == << ret, outcome, run_file, runs, max_pages, run_results >>
callVars == << calls, stops, scheduling >>
svcVars == << last_scraped_data, response, is_running, scraper, last_run,
             callVars >>

\* An entry of events: the existing-snapshot check ("check"); the start of
\* the listing request and its end with a response or with the error of the
\* last attempt ("listing_start", "listing_end", "listing_failed"); the start
\* and the end of the detail request of the n-th item node ("detail_start",
\* "detail_end"); the opening of the snapshot file for writing ("write").
Event(ev, n) == [ev |-> ev, n |-> n]

NoRequest ==
    [kind |-> "none", url |-> "", retries |-> 0, attempt |-> 0, calls |-> 0,
     sleeps |-> <<>>, rotations |-> 0, last_error |-> None,
     result |-> "none", raised_error |-> None]

\* The local state of _make_request as its loop starts.
NewRequest(kind, url, retries) ==
    [kind |-> kind, url |-> url, retries |-> retries, attempt |-> 0,
     calls |-> 0, sleeps |-> <<>>, rotations |-> 0, last_error |-> None,
     result |-> "pending", raised_error |-> None]

(***************************************************************************)
(* __init__.  _create_session runs before current_proxy_index is assigned: *)
(* with proxies enabled and a non-empty list, _set_proxy raises and the    *)
(* constructor does not return an object.                                  *)
(***************************************************************************)
Construct ==
    /\ pc = "new"
    /\ IF config.enable_proxies
          /\ SetProxyRaises(config.proxies, current_proxy_index)
       THEN /\ pc' = "ctor_raised"
            /\ UNCHANGED << session, current_proxy_index, results, scraper >>
       ELSE /\ scraper' = Some(0)
            /\ session' =
                  Some(IF config.enable_proxies
                       THEN SetProxy(config.proxies, 0, EmptyDict)
                       ELSE EmptyDict)
            /\ results' = <<>>
            /\ current_proxy_index' = Some(0)
            /\ pc' = "idle"
    /\ is_running' = TRUE
    /\ UNCHANGED << cfgVars, last_scraped_data, response, last_run, callVars,
                    file, loopVars, req, runVars, http_attempts, writes,
                    events >>

(***************************************************************************)
(* run(), up to the call of scrape_publications and its listing request.   *)
(***************************************************************************)
\* The outcome of `existing_count > 0`: "raise" when the operands cannot be
\* ordered (TypeError), else "true" or "false".
GreaterThanZero(x) ==
    IF ~x.num THEN "raise" ELSE IF x.v > 0 THEN "true" ELSE "false"

\* What run() decides before scraping: "skip", "raise" or "scrape".
RunDecision(force, f) ==
    IF ~force
    THEN LET existing_count == CheckExistingData(f)
             cmp == GreaterThanZero(existing_count)
         IN  IF cmp = "true" THEN "skip"
             ELSE IF cmp = "raise" THEN "raise" ELSE "scrape"
    ELSE "scrape"

\* def run(self, max_pages=10)
DefaultMaxPages == 10

\* The exception classes a run can raise outside _make_request: the
\* comparison of a value that is no number, a file system error.
ExceptionClasses == {"TypeError", "OSError"}

\* A buggy variant: run() catches request errors only.
RunCatchesRequestErrors(exc) == exc = "RequestException"

\* The handlers of run(): except KeyboardInterrupt, except Exception.
RunCatches(exc) ==
    exc = "KeyboardInterrupt" \/ exc \in ExceptionClasses \cup {"RequestException"}

\* run() returns False.
RunFails ==
    /\ pc' = "done"
    /\ ret' = Some(FALSE)
    /\ outcome' = "Failed"

\* An exception reaches the try block of run(): it is handled there and run()
\* returns False, or it leaves run().
RunRaised(exc) ==
    IF RunCatches(exc)
    THEN RunFails
    ELSE /\ pc' = "done"
         /\ ret' = None
         /\ outcome' = "Raised"

RunStart ==
    /\ pc \in {"idle", "done"}
    /\ runs < world.max_runs
    /\ runs' = runs + 1
    /\ run_file' = file
    /\ run_results' = results
    /\ \E mp \in world.page_args : max_pages' = Some(mp)
    /\ http_attempts' = 0
    /\ writes' = 0
    /\ publication_items' = <<>>
    /\ idx' = 0
    /\ publications' = <<>>
    /\ publication_data' = None
    /\ trace' = <<>>
    /\ LET d == RunDecision(force_rescrape, file)
           checked == IF ~force_rescrape THEN <<Event("check", 0)>> ELSE <<>>
       IN  CASE d = "skip" ->
                  /\ pc' = "done"
                  /\ ret' = Some(TRUE)
                  /\ outcome' = "Skipped"
                  /\ req' = NoRequest
                  /\ events' = checked
             [] d = "raise" ->
                  /\ RunRaised("TypeError")
                  /\ req' = NoRequest
                  /\ events' = checked
             [] OTHER ->
                  /\ pc' = "fetch"
                  /\ ret' = None
                  /\ outcome' = "Scraping"
                  /\ req' = NewRequest("listing", PublicationsUrl,
                                       config.retry_attempts)
                  /\ events' = Append(checked, Event("listing_start", 0))
    /\ UNCHANGED << cfgVars, svcVars, file, proxyVars, results >>

(***************************************************************************)
(* _make_request: one pass of its loop per step.                           *)
(***************************************************************************)
\* session.get returned and raise_for_status passed.
AttemptOk ==
    /\ pc = "fetch"
    /\ req.attempt <= req.retries
    /\ req' = [req EXCEPT !.calls = @ + 1, !.result = "response"]
    /\ http_attempts' = http_attempts + 1
    /\ pc' = "fetched"
    /\ UNCHANGED << cfgVars, svcVars, file, proxyVars, results, loopVars,
                    runVars, writes, events >>

\* A buggy variant: the same delay before every retry.
BackoffFlat(delay, attempt) == delay

\* The sleep of a failed attempt that is not the last: delay * (attempt + 1).
Backoff(delay, attempt) == delay * (attempt + 1)

\* A buggy variant: one retry more than configured.
MayRetryOneMore(attempt, retries) == attempt <= retries

\* Whether the failed attempt is followed by another one.
MayRetry(attempt, retries) == attempt < retries

\* session.get or raise_for_status raised a RequestException.
AttemptFail ==
    /\ pc = "fetch"
    /\ req.attempt <= req.retries
    /\ http_attempts' = http_attempts + 1
    /\ LET error == Some(req.calls + 1)
       IN  IF MayRetry(req.attempt, req.retries)
           THEN LET rot == IF config.enable_proxies
                           THEN RotateProxy(config, current_proxy_index[1],
                                            session[1])
                           ELSE [index |-> current_proxy_index[1],
                                 proxies |-> session[1], rotated |-> FALSE]
                IN  /\ current_proxy_index' = Some(rot.index)
                    /\ session' = Some(rot.proxies)
                    /\ req' = [req EXCEPT
                                 !.calls = @ + 1,
                                 !.last_error = error,
                                 !.rotations = @ + (IF rot.rotated THEN 1 ELSE 0),
                                 !.sleeps = Append(@, Backoff(config.delay,
                                                              req.attempt)),
                                 !.attempt = @ + 1]
                    /\ pc' = "fetch"
           ELSE /\ req' = [req EXCEPT !.calls = @ + 1,
                                      !.last_error = error,
                                      !.result = "raised",
                                      !.raised_error = error]
                /\ pc' = "fetched"
                /\ UNCHANGED proxyVars
    /\ UNCHANGED << cfgVars, svcVars, file, results, loopVars, runVars, writes,
                    events >>

(***************************************************************************)
(* scrape_publications after the listing request, and                      *)
(* extract_publications_from_page: one item node per step, its detail      *)
(* request in between.                                                     *)
(***************************************************************************)
\* A buggy variant: an empty list counts as a result.
FalsyNever(list) == FALSE

\* `not publications`, `not self.results`: the list is empty.
Falsy(list) == list = <<>>

\* A buggy variant: a failed scrape clears the stored results.
ResultsClearedByFailedScrape(results_before) == <<>>

\* self.results after scrape_publications returned [] early: the assignment
\* at the end of the method was not reached.
ResultsAfterFailedScrape(results_before) == results_before

\* A buggy variant: details are requested for every record.
NeedsDetailsAlways(publication) == TRUE

\* `if publication_data.get('url')`: the record has a detail link.
NeedsDetails(publication) == publication.url # ""

ListingFetched ==
    /\ pc = "fetched"
    /\ req.kind = "listing"
    /\ req' = NoRequest
    /\ IF req.result = "raised"
       THEN \* caught by scrape_publications, which returns []
            /\ RunFails
            /\ results' = ResultsAfterFailedScrape(results)
            /\ events' = Append(events, Event("listing_failed", 0))
            /\ UNCHANGED << loopVars >>
       ELSE \E page \in ListingPages(world.max_items) :
                /\ publication_items' = FindAllItems(page)
                /\ publications' = <<>>
                /\ idx' = 1
                /\ pc' = "extract"
                /\ outcome' = "Extracting"
                /\ events' = Append(events, Event("listing_end", 0))
                /\ UNCHANGED << ret, publication_data, trace, results >>
    /\ UNCHANGED << cfgVars, svcVars, file, proxyVars, run_file, runs, max_pages,
                    run_results, http_attempts, writes >>

ExtractItem ==
    /\ pc = "extract"
    /\ idx <= Len(publication_items)
    /\ LET item == publication_items[idx]
           pd == ExtractPublicationFromItem(item, BaseUrl)
       IN  IF pd = None
           THEN /\ idx' = idx + 1
                /\ trace' = Append(trace, [item |-> item, detail |-> "norecord",
                                           page |-> None])
                /\ UNCHANGED << publications, publication_data, req, pc,
                                events >>
           ELSE IF NeedsDetails(pd[1])
                THEN /\ publication_data' = pd
                     /\ req' = NewRequest("detail", pd[1].url,
                                          config.retry_attempts)
                     /\ pc' = "fetch"
                     /\ events' = Append(events, Event("detail_start", idx))
                     /\ UNCHANGED << idx, publications, trace >>
                ELSE /\ publications' = Append(publications, pd[1])
                     /\ idx' = idx + 1
                     /\ trace' = Append(trace, [item |-> item, detail |-> "nolink",
                                                page |-> None])
                     /\ UNCHANGED << publication_data, req, pc, events >>
    /\ UNCHANGED << cfgVars, svcVars, file, proxyVars, results, publication_items,
                    runVars, http_attempts, writes >>

\* extract_publication_details as a buggy variant would be: a failure is not
\* caught and reaches the per-item handler of the caller.
ExtractPublicationDetailsUncaught(fetch_result, page) ==
    IF fetch_result = "raised" \/ page.raises
    THEN [raised |-> TRUE, details |-> None]
    ELSE [raised |-> FALSE, details |-> Some(ExtractDetailFields(page))]

\* A variant that returns the fields computed before the exception.
ExtractPublicationDetailsPartial(fetch_result, page) ==
    IF fetch_result = "raised"
    THEN [raised |-> FALSE, details |-> None]
    ELSE [raised |-> FALSE, details |-> Some(ExtractDetailFields(page))]

\* extract_publication_details once its request has ended: whether it raises
\* and what it returns.  Every exception is caught and becomes None.
ExtractPublicationDetails(fetch_result, page) ==
    IF fetch_result = "raised" \/ page.raises
    THEN [raised |-> FALSE, details |-> None]
    ELSE [raised |-> FALSE, details |-> Some(ExtractDetailFields(page))]

DetailFetched ==
    /\ pc = "fetched"
    /\ req.kind = "detail"
    /\ req' = NoRequest
    /\ \E page \in DetailPages :
          LET r == ExtractPublicationDetails(req.result, page)
              how == IF req.result = "raised" THEN "exhausted"
                     ELSE IF page.raises THEN "parse_raised" ELSE "merged"
              entry == [item |-> publication_items[idx], detail |-> how,
                        page |-> IF how \in {"merged", "parse_raised"}
                                 THEN Some(page) ELSE None]
          IN  IF r.raised
              THEN \* the handler of the item loop: the item is given up
                   /\ UNCHANGED publications
                   /\ trace' = Append(trace, [entry EXCEPT !.detail = "dropped"])
              ELSE /\ publications' =
                         Append(publications,
                                IF r.details # None
                                THEN MergeDetails(publication_data[1],
                                                  r.details[1])
                                ELSE publication_data[1])
                   /\ trace' = Append(trace, entry)
    /\ publication_data' = None
    /\ idx' = idx + 1
    /\ pc' = "extract"
    /\ events' = Append(events, Event("detail_end", idx))
    /\ UNCHANGED << cfgVars, svcVars, file, proxyVars, results, publication_items,
                    runVars, http_attempts, writes >>

\* extract_publications_from_page returns; scrape_publications deduplicates
\* and stores the result, or returns [] when nothing was extracted.
FinishExtract ==
    /\ pc = "extract"
    /\ idx > Len(publication_items)
    /\ IF Falsy(publications)
       THEN /\ RunFails
            /\ results' = ResultsAfterFailedScrape(results)
       ELSE /\ results' = Dedup(publications)
            /\ pc' = "save"
            /\ outcome' = "Persisting"
            /\ UNCHANGED ret
    /\ UNCHANGED << cfgVars, svcVars, file, proxyVars, loopVars, req, run_file,
                    runs, max_pages, run_results, http_attempts, writes,
                    events >>

(***************************************************************************)
(* save_results and the end of run().  io is what the file system does:    *)
(* "ok"; "makedirs" (os.makedirs raises, outside the try block of          *)
(* save_results); "open" (open raises, the file is untouched); "dump" (the *)
(* file was opened for writing, hence truncated, and the write raises      *)
(* part-way, leaving no complete document).                                *)
(***************************************************************************)
\* A buggy variant: run() reports success whatever save_results returned.
RunReturnTrue(success) == TRUE

\* `if success: ... return True / else: return False` at the end of run().
RunReturn(success) == success

\* run() ends with the value save_results returned.
RunEnds(success) ==
    /\ pc' = "done"
    /\ ret' = Some(RunReturn(success))
    /\ outcome' = IF RunReturn(success) THEN "Completed" ELSE "Failed"

SaveResults ==
    /\ pc = "save"
    /\ \E io \in {"ok", "makedirs", "open", "dump"} :
          IF Falsy(results)
          THEN /\ RunEnds(FALSE)
               /\ UNCHANGED << file, writes, events >>
          ELSE CASE io = "ok" ->
                      /\ file' = OutputData(results, force_rescrape)
                      /\ writes' = writes + 1
                      /\ events' = Append(events, Event("write", 0))
                      /\ RunEnds(TRUE)
                 [] io = "dump" ->
                      /\ file' = UnreadableFile
                      /\ events' = Append(events, Event("write", 0))
                      /\ RunEnds(FALSE)
                      /\ UNCHANGED writes
                 [] io = "open" ->
                      /\ RunEnds(FALSE)
                      /\ UNCHANGED << file, writes, events >>
                 [] OTHER ->
                      /\ RunRaised("OSError")
                      /\ UNCHANGED << file, writes, events >>
    /\ UNCHANGED << cfgVars, svcVars, proxyVars, results, loopVars, req, run_file,
                    runs, max_pages, run_results, http_attempts >>

(***************************************************************************)
(* The service around the scraper (app/services/court_accounts_service.py):*)
(* start_scraping builds a scraper, calls run() and, when run() reported   *)
(* success, copies scraper.results into last_scraped_data.                 *)
(***************************************************************************)
\* _load_existing_data: the data list of the snapshot file, if it has one.
LoadExistingData(f) == IF f.kind = "object" THEN f.data ELSE <<>>

\* ScrapingResponse(success, publications_count)
ScrapingResponse(success, publications_count) ==
    [success |-> success, publications_count |-> publications_count]

\* start_scraping after the constructor raised or run() ended.
StartScrapingReturns ==
    /\ pc \in {"done", "ctor_raised"}
    /\ pc' = "returned"
    /\ IF pc = "done" /\ ret = Some(TRUE)
       THEN /\ last_scraped_data' = results
            /\ response' = Some(ScrapingResponse(TRUE, Some(Len(results))))
       ELSE /\ response' = Some(ScrapingResponse(FALSE, None))
            /\ UNCHANGED last_scraped_data
    /\ last_run' = IF pc = "done" THEN Some(1) ELSE last_run
    /\ is_running' = FALSE
    /\ scraper' = None
    /\ UNCHANGED << cfgVars, callVars, file, proxyVars, results, loopVars, req,
                    runVars, http_attempts, writes, events >>

Next ==
    \/ Construct
    \/ RunStart
    \/ AttemptOk
    \/ AttemptFail
    \/ ListingFetched
    \/ ExtractItem
    \/ DetailFetched
    \/ FinishExtract
    \/ SaveResults
    \/ StartScrapingReturns

(***************************************************************************)
(* The environments the specifications start from.                         *)
(***************************************************************************)
ProxyA == [http |-> "pa", https |-> "pa"]
ProxyB == [http |-> "pb"]
ProxyLists == { <<>>, <<ProxyA>>, <<ProxyA, ProxyB>> }

OldPublication ==
    [NewPublication(BaseUrl) EXCEPT !.title = <<"O">>]

\* Snapshot files a run may find.
InitFiles ==
    { MissingFile, UnreadableFile, NotObjectFile,
      ObjectFile(None, <<OldPublication>>),
      ObjectFile(Some(Number(0)), <<>>),
      ObjectFile(Some(Number(1)), <<OldPublication>>),
      ObjectFile(Some(NotANumber), <<OldPublication>>) }

Fresh ==
    /\ session = None
    /\ current_proxy_index = None
    /\ results = <<>>
    /\ publication_items = <<>>
    /\ idx = 0
    /\ publications = <<>>
    /\ publication_data = None
    /\ req = NoRequest
    /\ ret = None
    /\ outcome = "Idle"
    /\ http_attempts = 0
    /\ writes = 0
    /\ run_file = file
    /\ trace = <<>>
    /\ runs = 0
    /\ max_pages = None
    /\ run_results = <<>>
    /\ events = <<>>
    /\ last_scraped_data = LoadExistingData(file)
    /\ response = None
    /\ is_running = FALSE
    /\ scraper = None
    /\ last_run = None
    /\ stops = 0

\* One start_scraping call, admitted, on the event loop.
OneCall ==
    /\ calls = EmptyDict
    /\ scheduling = "loop"

InitScraper ==
    /\ pc = "new"
    /\ Fresh
    /\ OneCall
    /\ arg = None
    /\ res = <<>>

\* The whole run: proxies off or on with an empty list, every snapshot file.
Init ==
    /\ config \in [enable_proxies : BOOLEAN, proxy_rotation : {TRUE},
                   proxies : {<<>>}, retry_attempts : 0..1, delay : {MaxDelay}]
    /\ force_rescrape \in BOOLEAN
    /\ world = [max_items |-> MaxItems, max_runs |-> 1, page_args |-> {DefaultMaxPages}]
    /\ file \in InitFiles
    /\ InitScraper

Spec == Init /\ [][Next]_vars

\* The fetch layer: every proxy and retry setting, a one-item site.
InitFetch ==
    /\ config \in [enable_proxies : BOOLEAN, proxy_rotation : BOOLEAN,
                   proxies : ProxyLists, retry_attempts : 0..MaxRetries,
                   delay : 0..MaxDelay]
    /\ force_rescrape = FALSE
    /\ world = [max_items |-> 1, max_runs |-> 1, page_args |-> {DefaultMaxPages}]
    /\ file \in {MissingFile, ObjectFile(Some(Number(1)), <<OldPublication>>)}
    /\ InitScraper

SpecFetch == InitFetch /\ [][Next]_vars

\* run() called up to MaxRuns times on one scraper, with several max_pages
\* arguments, on a site of one item node.
InitRerun ==
    /\ config = [enable_proxies |-> FALSE, proxy_rotation |-> TRUE,
                 proxies |-> <<>>, retry_attempts |-> 1, delay |-> MaxDelay]
    /\ force_rescrape \in BOOLEAN
    /\ world = [max_items |-> 1, max_runs |-> MaxRuns,
                page_args |-> {0, 1, DefaultMaxPages}]
    /\ file \in InitFiles
    /\ InitScraper

SpecRerun == InitRerun /\ [][Next]_vars

\* The whole run when every step that can be taken is taken: a request
\* attempt returns or fails, the loops go on.
SpecLive == Spec /\ WF_vars(Next)

(***************************************************************************)
(* Deduplication alone: any list of up to MaxDedupLen records over two     *)
(* titles, two dates and two links; the function is applied to the list    *)
(* and then to its own result.                                             *)
(***************************************************************************)
DedupRecords ==
    { [NewPublication(BaseUrl) EXCEPT !.title = t, !.date = d, !.url = u] :
        t \in {<<"A">>, <<"A", "_", "1">>},
        d \in {<<"2">>, <<"1", "_", "2">>},
        u \in {"/p/a", "/p/b"} }

InitPure ==
    /\ config = [enable_proxies |-> FALSE, proxy_rotation |-> TRUE,
                 proxies |-> <<>>, retry_attempts |-> 0, delay |-> 0]
    /\ force_rescrape = FALSE
    /\ world = [max_items |-> 0, max_runs |-> 0, page_args |-> {}]
    /\ file = MissingFile
    /\ pc = "pure"
    /\ Fresh
    /\ OneCall
    /\ res = <<>>

InitDedup ==
    /\ InitPure
    /\ arg \in SeqsUpTo(DedupRecords, MaxDedupLen)

ApplyDedup ==
    /\ pc = "pure"
    /\ Len(res) < 2
    /\ res' = Append(res, Dedup(IF res = <<>> THEN arg ELSE res[Len(res)]))
    /\ UNCHANGED << config, force_rescrape, world, arg, file, pc, proxyVars,
                    results, loopVars, req, runVars, http_attempts, writes,
                    events, svcVars >>

SpecDedup == InitDedup /\ [][ApplyDedup]_vars

(***************************************************************************)
(* Claims about run()'s skip decision and about the fetch layer.           *)
(***************************************************************************)
Started == runs > 0

\* The snapshot file existed with totalItems > 0 when run() began.
HadItems ==
    /\ run_file.kind = "object"
    /\ run_file.total_items # None
    /\ LET t == run_file.total_items[1] IN t.num /\ t.v > 0

ListingRequested == req.kind = "listing" \/ http_attempts > 0

\* C1: run() ends Skipped (returning success, with no HTTP request and no
\* snapshot write) exactly when forceRescrape is false and the snapshot file
\* exists with totalItems > 0; in every other case run() goes on to request
\* the listing page.
C1_SkipPolicy ==
    Started =>
        /\ (outcome = "Skipped") <=> (~force_rescrape /\ HadItems)
        /\ outcome = "Skipped" =>
              /\ ret = Some(TRUE)
              /\ http_attempts = 0
              /\ writes = 0
              /\ file = run_file
        /\ ~(~force_rescrape /\ HadItems) => ListingRequested

\* C2: a request never makes more than retryAttempts + 1 attempts nor more
\* than retryAttempts sleeps; while attempts remain it is still trying; and
\* a request whose attempts all failed has made exactly retryAttempts + 1
\* attempts and retryAttempts sleeps, rotated only before a retry, and ended
\* by raising the error of its last attempt.
C2_RetryExhaustion ==
    req.kind # "none" =>
        /\ req.retries = config.retry_attempts
        /\ req.calls <= req.retries + 1
        /\ Len(req.sleeps) <= req.retries
        /\ req.result \in {"pending", "response", "raised"}
        /\ req.result = "pending" => (pc = "fetch" /\ req.calls <= req.retries)
        /\ req.result = "raised" =>
              /\ req.calls = req.retries + 1
              /\ Len(req.sleeps) = req.retries
              /\ req.rotations <= req.retries
              /\ req.raised_error = Some(req.retries + 1)
              /\ req.raised_error = req.last_error
              /\ pc = "fetched"

C2_Witness ==
    /\ req.kind = "detail"
    /\ req.result = "raised"
    /\ req.retries = 2
    /\ req.calls = 3

FailedAttemptStep == pc = "fetch" /\ req'.last_error # req.last_error

\* C4: when the proxy pool is empty or rotation is disabled, a failed
\* attempt changes neither the proxy cursor nor the session's proxies.
C4_RotationNoOp ==
    [][ (FailedAttemptStep /\ (config.proxies = <<>> \/ ~config.proxy_rotation))
            => UNCHANGED << current_proxy_index, session >> ]_vars

\* C5: in a scraper configured with proxies, rotation and a non-empty pool
\* of size n, the cursor is a counter that starts at 0 and the session's
\* proxies are pool[cursor mod n]; the cursor never decreases, is not reset
\* between requests and advances by one per rotation.
C5_CursorState ==
    (pc # "new" /\ config.enable_proxies /\ config.proxy_rotation
        /\ config.proxies # <<>>) =>
        /\ current_proxy_index # None
        /\ session # None
        /\ session[1] =
              config.proxies[(current_proxy_index[1] % Len(config.proxies)) + 1]

C5_CursorSteps ==
    (current_proxy_index # None) =>
        /\ current_proxy_index' # None
        /\ current_proxy_index'[1] >= current_proxy_index[1]
        /\ current_proxy_index'[1] - current_proxy_index[1] =
              IF pc = "fetch" THEN req'.rotations - req.rotations ELSE 0

C5_SharedCursor == []C5_CursorState /\ [][C5_CursorSteps]_vars

(***************************************************************************)
(* Claims about deduplication.                                             *)
(***************************************************************************)
SameKey(a, b) == a.title = b.title /\ a.date = b.date

\* The positions of s that hold the first record of their (title, date).
FirstOccurrences(s) ==
    {i \in 1..Len(s) : \A j \in 1..(i - 1) : ~SameKey(s[j], s[i])}

\* The k-th smallest member of a set of positions.
KthOf(I, k) == CHOOSE i \in I : Cardinality({j \in I : j <= i}) = k

\* C6: the deduplicated list is the input's subsequence of the first record
\* of each (title, date) pair, in input order: no two of its records share
\* title and date, every input pair is present, and records that share a
\* title but not a date are both kept.
C6_DedupFirstOccurrence ==
    res # <<>> =>
        LET out == res[1]
            I == FirstOccurrences(arg)
        IN  /\ Len(out) = Cardinality(I)
            /\ \A k \in 1..Len(out) : out[k] = arg[KthOf(I, k)]
            /\ \A i, j \in 1..Len(out) : SameKey(out[i], out[j]) => i = j
            /\ \A i \in 1..Len(arg) :
                  \E k \in 1..Len(out) : SameKey(out[k], arg[i])
            /\ \A i, j \in 1..Len(arg) :
                  (arg[i].title = arg[j].title /\ arg[i].date # arg[j].date) =>
                      \E k, m \in 1..Len(out) :
                          /\ k # m
                          /\ SameKey(out[k], arg[i])
                          /\ SameKey(out[m], arg[j])

C6_Witness ==
    /\ res # <<>>
    /\ Len(arg) = 3
    /\ SameKey(arg[1], arg[2])
    /\ arg[1] # arg[2]
    /\ arg[3].title = arg[1].title
    /\ arg[3].date # arg[1].date
    /\ res[1] = <<arg[1], arg[3]>>

\* C7: deduplicating a deduplicated list changes nothing.
C7_DedupIdempotent ==
    Len(res) = 2 => res[2] = res[1]

C7_Witness ==
    /\ Len(res) = 2
    /\ Len(arg) = 3
    /\ Len(res[1]) = 2
    /\ res[2] = res[1]

(***************************************************************************)
(* Claims about listing extraction and the detail merge.                   *)
(***************************************************************************)
Blank(text) == \A i \in 1..Len(text) : text[i] = " "

\* The item node has neither a title attribute nor a heading with text.
NoTitleText(item) ==
    /\ Blank(item.data_title)
    /\ item.h2 = None \/ Blank(item.h2[1])

AllTitled(records) == \A i \in 1..Len(records) : records[i].title # <<>>

HasRecord(entry) == entry.detail # "norecord"

\* The handled item nodes that produced a record, in order.
Recorded == SelectSeq(trace, HasRecord)

\* C8: every record extracted, kept in results or written to the snapshot
\* has a non-empty title; a current-year item node without title attribute
\* and heading text yields no record and no detail request.
C8_NonEmptyTitle ==
    /\ AllTitled(publications)
    /\ AllTitled(results)
    /\ writes > 0 => AllTitled(file.data)
    /\ publication_data # None => publication_data[1].title # <<>>
    /\ Len(publications) = Len(Recorded)
    /\ \A k \in 1..Len(trace) :
          NoTitleText(trace[k].item) => trace[k].detail = "norecord"

C8_Witness ==
    /\ outcome = "Completed"
    /\ writes = 1
    /\ \E k \in 1..Len(trace) :
          /\ trace[k].detail = "norecord"
          /\ trace[k].item.data_time = StrOfYear(CurrentYear)
          /\ trace[k].item.a = Some("/p/x")

ListingKeys == DOMAIN NewPublication(BaseUrl)

\* C9: a record whose detail extraction failed (its request exhausted the
\* retries, or parsing threw) is returned with its listing fields only;
\* every item node with title text yields its record whatever happened to
\* the others, each record being what its own node and its own detail page
\* give; the extraction loop handles every node.
C9_DetailFailureIsolation ==
    /\ Len(publications) = Len(Recorded)
    /\ \A k \in 1..Len(trace) :
          trace[k].detail = "norecord" => NoTitleText(trace[k].item)
    /\ \A k \in 1..Len(Recorded) :
          LET e == Recorded[k]
              p == publications[k]
              listing == ExtractPublicationFromItem(e.item, BaseUrl)[1]
          IN  /\ e.detail \in {"nolink", "exhausted", "parse_raised", "merged"}
              /\ e.detail \in {"nolink", "exhausted", "parse_raised"} =>
                    /\ p = listing
                    /\ DOMAIN p = ListingKeys
              /\ e.detail = "merged" =>
                    p = DictUpdate(listing, ExtractDetailFields(e.page[1]))
    /\ pc = "extract" => Len(trace) = idx - 1
    /\ pc \in {"save"} \/ outcome = "Completed" =>
          Len(trace) = Len(publication_items)

C9_Witness ==
    /\ outcome = "Completed"
    /\ Len(trace) = 2
    /\ trace[1].detail = "exhausted"
    /\ trace[2].detail = "merged"
    /\ Len(publications) = 2
    /\ publications[2].description = "D"

\* C10: in a record merged with its detail fields, each field that both the
\* listing record and the detail fields have holds the detail value when
\* that value is non-empty and the listing value when it is empty.
C10_MergeRule ==
    \A k \in 1..Len(Recorded) :
        Recorded[k].detail = "merged" =>
            LET listing == ExtractPublicationFromItem(Recorded[k].item, BaseUrl)[1]
                details == ExtractDetailFields(Recorded[k].page[1])
                p == publications[k]
            IN  \A f \in (DOMAIN listing) \cap (DOMAIN details) :
                    p[f] = IF details[f] # "" THEN details[f] ELSE listing[f]

C10_Witness ==
    /\ outcome = "Completed"
    /\ \E k \in 1..Len(Recorded) :
          /\ Recorded[k].detail = "merged"
          /\ Recorded[k].page[1].description = ""
          /\ publications[k].description = ""
    /\ \E k \in 1..Len(Recorded) :
          /\ Recorded[k].detail = "merged"
          /\ publications[k].description = "D"
          /\ publications[k].pdf_url = "/docs/r.pdf"

(***************************************************************************)
(* Claims about the outcome of a run.                                      *)
(***************************************************************************)
IsListingStart(e) == e.ev = "listing_start"
IsDetailEvent(e) == e.ev \in {"detail_start", "detail_end"}
IsWrite(e) == e.ev = "write"

Occurred(ev) == \E k \in 1..Len(events) : events[k].ev = ev

\* C11: a run that does not skip requests the listing page by exactly one
\* call of the retrying fetch, whatever max_pages it was given.
C11_SingleListingFetch ==
    (Started /\ outcome # "Skipped") =>
        /\ max_pages # None
        /\ Len(SelectSeq(events, IsListingStart)) = 1

Ended == pc \in {"done", "returned"}

\* The extraction loop went through the whole listing page.
LoopFinished == Occurred("listing_end") /\ idx > Len(publication_items)

\* C12: when the listing yields no record, run() returns failure and the
\* snapshot file is neither written nor changed: it is what it was when the
\* run began.
C12_EmptyExtractionFails ==
    (LoopFinished /\ publications = <<>>) =>
        /\ writes = 0
        /\ SelectSeq(events, IsWrite) = <<>>
        /\ file = run_file
        /\ pc # "extract" =>
              /\ Ended
              /\ ret = Some(FALSE)
              /\ outcome = "Failed"

C12_Witness ==
    /\ LoopFinished
    /\ publications = <<>>
    /\ Len(publication_items) = 2
    /\ pc = "done"
    /\ force_rescrape
    /\ run_file.kind = "object"
    /\ run_file.data # <<>>
    /\ file = run_file

\* C13: when the listing request fails on all its attempts, run() returns
\* failure, no detail page is requested, no snapshot is written and
\* self.results is what it was before the run.
C13_ListingExhaustionAborts ==
    Occurred("listing_failed") =>
        /\ pc \in {"done", "returned"}
        /\ ret = Some(FALSE)
        /\ outcome = "Failed"
        /\ http_attempts = config.retry_attempts + 1
        /\ SelectSeq(events, IsDetailEvent) = <<>>
        /\ SelectSeq(events, IsWrite) = <<>>
        /\ trace = <<>>
        /\ writes = 0
        /\ file = run_file
        /\ results = run_results

C13_Witness ==
    /\ Occurred("listing_failed")
    /\ runs = 2
    /\ run_results # <<>>
    /\ results = run_results
    /\ run_file.kind = "object"
    /\ run_file.data = results

\* The first record of each (title, date) pair of s, in the order of s.
FirstOfEachKey(s) ==
    LET I == FirstOccurrences(s)
    IN  [k \in 1..Cardinality(I) |-> s[KthOf(I, k)]]

\* save_results was reached and wrote no complete snapshot.
SaveFailed ==
    /\ Ended
    /\ LoopFinished
    /\ publications # <<>>
    /\ writes = 0

\* C14: when writing the snapshot fails, run() returns failure and
\* self.results still holds the deduplicated records this run extracted.
C14_PersistenceFailure ==
    SaveFailed =>
        /\ ret = Some(FALSE)
        /\ outcome = "Failed"
        /\ results # <<>>
        /\ results = FirstOfEachKey(publications)

C14_Witness ==
    /\ SaveFailed
    /\ pc = "done"
    /\ Occurred("write")
    /\ file = UnreadableFile
    /\ run_file = MissingFile
    /\ Len(results) = 2

\* C15: run() always ends by returning a boolean, false exactly when the run
\* failed; no exception leaves it, whatever the snapshot file holds and
\* whichever request or write fails.
C15_NoExceptionEscapes ==
    /\ outcome # "Raised"
    /\ Ended =>
          /\ ret \in {Some(TRUE), Some(FALSE)}
          /\ ret = Some(FALSE) <=> outcome = "Failed"
    /\ response # None /\ pc = "returned" /\ ret # None =>
          response[1].success = ret[1]

C15_Witness ==
    /\ pc = "done"
    /\ ret = Some(FALSE)
    /\ run_file.kind = "object"
    /\ run_file.total_items = Some(NotANumber)
    /\ events = <<Event("check", 0)>>

\* C16: after run() returned success, self.results is the record list of
\* the snapshot file, and the service reports its length and keeps it as
\* last_scraped_data; after a skipped run that is the existing snapshot.
C16_ResultsAreSnapshot ==
    (Ended /\ ret = Some(TRUE)) =>
        /\ file.kind = "object"
        /\ results = file.data
        /\ response # None =>
              /\ response[1].publications_count = Some(Len(file.data))
              /\ last_scraped_data = file.data

(***************************************************************************)
(* Claims about the snapshot write.                                        *)
(***************************************************************************)
\* C17: a successful write replaces the whole file by a document whose data
\* is exactly the run's deduplicated records and whose totalItems is the
\* length of data, nothing of the earlier content being kept; a run writes
\* the snapshot at most once.
C17_WholesaleWrite ==
    /\ writes <= 1
    /\ Len(SelectSeq(events, IsWrite)) <= 1
    /\ writes = 1 =>
          /\ file.kind = "object"
          /\ file.data = results
          /\ file.data = FirstOfEachKey(publications)
          /\ file.total_items = Some(Number(Len(file.data)))
          /\ file.duplicate_checking =
                IF force_rescrape THEN "Disabled" ELSE "Enabled"
          /\ DOMAIN file = {"kind", "total_items", "duplicate_checking", "data"}
          /\ outcome = "Completed"

C17_Witness ==
    /\ writes = 1
    /\ run_file.kind = "object"
    /\ run_file.data = <<OldPublication>>
    /\ Len(publications) = 2
    /\ Len(file.data) = 2
    /\ \A k \in 1..2 : file.data[k] # OldPublication

\* C18: whatever happens during save_results, the snapshot file holds the
\* complete content it had before the run or the complete new document.
C18_AllOrNothingWrite ==
    Started =>
        \/ file = run_file
        \/ /\ file.kind = "object"
           /\ file.data = results
           /\ file.total_items = Some(Number(Len(results)))

(***************************************************************************)
(* Claims about the course of a run.  The existing-snapshot check happens  *)
(* inside the step RunStart, so CheckingExisting is no state of its own:   *)
(* a run leaves Idle for the state the check leads to.                     *)
(***************************************************************************)
Transitions ==
    { <<"Idle", "Skipped">>, <<"Idle", "Scraping">>,
      <<"Scraping", "Extracting">>, <<"Scraping", "Failed">>,
      <<"Extracting", "Persisting">>, <<"Extracting", "Failed">>,
      <<"Persisting", "Completed">>, <<"Persisting", "Failed">> }

C19_Steps == outcome' # outcome => <<outcome, outcome'>> \in Transitions

C19_Returns ==
    /\ Ended => outcome \in {"Skipped", "Completed", "Failed"}
    /\ outcome \in {"Skipped", "Completed"} => ret = Some(TRUE)
    /\ outcome = "Failed" => ret = Some(FALSE)
    /\ outcome \in {"Idle", "Scraping", "Extracting", "Persisting"} =>
          ret = None

\* C19: a run moves only along Idle -> CheckingExisting -> {Skipped |
\* Scraping} -> Extracting -> Persisting -> {Completed | Failed}, Failed
\* being reachable from Scraping and Extracting too, and ends in Skipped or
\* Completed returning success, or in Failed returning failure.
C19_StateMachine == []C19_Returns /\ [][C19_Steps]_vars

\* The item node has a link with a non-empty href.
HasLink(item) == item.a # None /\ item.a[1] # ""

\* C20: within a run the existing-snapshot check comes first and the
\* listing request next; no detail request starts before the listing
\* request has ended; detail requests come one at a time, in listing order,
\* at most one per item node and only for nodes with a title and a non-empty
\* link; the snapshot is opened for writing last, after every detail request
\* has ended.
C20_RunOrdering ==
    LET n == Len(events)
        first == IF force_rescrape THEN 1 ELSE 2
    IN  /\ \A k \in 1..n :
              /\ events[k].ev = "check" <=> (~force_rescrape /\ k = 1)
              /\ events[k].ev = "listing_start" <=> k = first
              /\ events[k].ev \in {"listing_end", "listing_failed"} <=>
                    k = first + 1
              /\ events[k].ev = "listing_failed" => k = n
              /\ events[k].ev = "detail_start" =>
                    /\ k > first + 1
                    /\ events[first + 1].ev = "listing_end"
                    /\ events[k].n \in 1..Len(publication_items)
                    /\ ~NoTitleText(publication_items[events[k].n])
                    /\ HasLink(publication_items[events[k].n])
                    /\ k < n => events[k + 1] = Event("detail_end", events[k].n)
                    /\ \A j \in 1..(k - 1) :
                          events[j].ev = "detail_start" =>
                              events[j].n < events[k].n
              /\ events[k].ev = "detail_end" =>
                    events[k - 1] = Event("detail_start", events[k].n)
              /\ events[k].ev = "write" =>
                    /\ k = n
                    /\ events[k - 1].ev \in {"listing_end", "detail_end"}
                    /\ Len(trace) = Len(publication_items)
        /\ req.kind = "listing" =>
              /\ events[n].ev = "listing_start"
              /\ (~force_rescrape => events[1].ev = "check")
        /\ req.kind = "detail" => events[n] = Event("detail_start", idx)
        /\ \A i \in 1..Len(trace) :
              (HasRecord(trace[i]) /\ HasLink(trace[i].item)) =>
                  \E k \in 1..n : events[k] = Event("detail_end", i)

C20_Witness ==
    /\ outcome = "Completed"
    /\ events = << Event("check", 0), Event("listing_start", 0),
                   Event("listing_end", 0), Event("detail_start", 1),
                   Event("detail_end", 1), Event("detail_start", 2),
                   Event("detail_end", 2), Event("write", 0) >>

(***************************************************************************)
(* Claims about the fields of a record.                                    *)
(***************************************************************************)
\* The text has four consecutive digits starting at position i.
DigitRunAt(text, i) ==
    /\ i + 3 <= Len(text)
    /\ \A j \in 0..3 : text[i + j] \in Digits

\* C21: the year of every record listing extraction returns is the number
\* written by the first four-digit run of its date text, is the current
\* year when the date text has no such run (a record without date
\* included), and is never null.
C21_RecordYear ==
    \A k \in 1..Len(publications) :
        LET p == publications[k]
            runs_at == {i \in 1..Len(p.date) : DigitRunAt(p.date, i)}
        IN  /\ p.year # None
            /\ runs_at = {} => p.year = Some(CurrentYear)
            /\ runs_at # {} =>
                  LET i == CHOOSE x \in runs_at : \A y \in runs_at : x <= y
                  IN  p.year = Some(IntOfDigits(SubSeq(p.date, i, i + 3)))

(***************************************************************************)
(* The description of a detail page, character by character.               *)
(*                                                                         *)
(* A page is seen here as its og:description meta element (None when the   *)
(* page has none, otherwise the value of its content attribute, None when  *)
(* the attribute is missing) and, for each content selector, the element   *)
(* select_one finds (None, or the sequence of its text nodes).             *)
(***************************************************************************)
\* The number of characters of body text a description keeps.
DescriptionLimit == 500

Ellipsis == << ".", ".", "." >>

ContentSelectors ==
    << ".entry-content", ".post-content", ".article-content", ".content",
       "article .content", ".single-content" >>

\* get_text(separator=' ', strip=True): every text node stripped, the empty
\* ones left out, the others joined by one space.
RECURSIVE GetText(_)
GetText(nodes) ==
    IF nodes = <<>> THEN <<>>
    ELSE LET first == Strip(Head(nodes))
             rest == GetText(Tail(nodes))
         IN  IF first = <<>> THEN rest
             ELSE IF rest = <<>> THEN first
             ELSE first \o << " " >> \o rest

\* A variant that cuts a text of exactly DescriptionLimit characters too.
TruncateFromLimit(content_text) ==
    IF Len(content_text) >= DescriptionLimit
    THEN SubSeq(content_text, 1, DescriptionLimit) \o Ellipsis
    ELSE content_text

\* content_text[:500] + ('...' if len(content_text) > 500 else '')
Truncate(content_text) ==
    (IF Len(content_text) > DescriptionLimit
     THEN SubSeq(content_text, 1, DescriptionLimit)
     ELSE content_text)
        \o (IF Len(content_text) > DescriptionLimit THEN Ellipsis ELSE <<>>)

\* og_description.get('content', '').strip() when the meta element exists.
OgDescription(page) ==
    IF page.og = None THEN <<>>
    ELSE IF page.og[1] = None THEN <<>>
    ELSE Strip(page.og[1][1])

\* The selectors whose element the page has, in the order the loop tries them.
FoundSelectors(page) ==
    {i \in 1..Len(ContentSelectors) : page.content[ContentSelectors[i]] # None}

\* The description and full_content entries of the details, as the first
\* part of extract_publication_details computes them.
ExtractDescription(page) ==
    LET initial == [description |-> <<>>, full_content |-> <<>>]
        og == OgDescription(page)
        found == FoundSelectors(page)
    IN  IF og # <<>> THEN [initial EXCEPT !.description = og]
        ELSE IF found = {} THEN initial
        ELSE LET i == CHOOSE x \in found : \A y \in found : x <= y
                 content_text == GetText(page.content[ContentSelectors[i]][1])
             IN  [description |-> Truncate(content_text),
                  full_content |-> content_text]

(***************************************************************************)
(* The pages the description is computed for: texts whose length is around *)
(* the limit, with and without surrounding white space.                    *)
(***************************************************************************)
\* How far past the limit the lengths of the texts go.
MaxExtra == 2

\* A text of n characters none of which is white space; the characters
\* differ along the text, so a prefix is told from any other part.
Body(n) == [i \in 1..n |-> DigitChar(i % 10)]

TextLengths ==
    {0, 1} \cup {DescriptionLimit + d : d \in (0 - 1)..MaxExtra}

MetaContents ==
    {None} \cup {Some(Body(n)) : n \in TextLengths}
           \cup {Some(<< " " >> \o Body(n) \o << " " >>) : n \in TextLengths}

ContentNodes ==
    {<< Body(n) >> : n \in TextLengths}
        \cup {<< << " " >>, << " " >> \o Body(n) >> : n \in TextLengths}
        \cup {<< Body(1), Body(n) >> : n \in TextLengths}

NoContent == [sel \in {ContentSelectors[i] : i \in 1..Len(ContentSelectors)}
                  |-> None]

\* Pages with at most two content elements.
DescriptionPages ==
    {[og |-> og, content |-> c] :
        og \in {None} \cup {Some(m) : m \in MetaContents},
        c \in {NoContent}
              \cup {[NoContent EXCEPT ![ContentSelectors[i]] = Some(n)] :
                        i \in 1..Len(ContentSelectors), n \in ContentNodes}
              \cup {[NoContent EXCEPT ![ContentSelectors[i]] = Some(<<Body(1)>>),
                                      ![ContentSelectors[i + 1]] = Some(n)] :
                        i \in 1..(Len(ContentSelectors) - 1),
                        n \in ContentNodes}}

InitDescription ==
    /\ InitPure
    /\ arg \in DescriptionPages

ApplyDescription ==
    /\ pc = "pure"
    /\ res = <<>>
    /\ res' = << ExtractDescription(arg) >>
    /\ UNCHANGED << config, force_rescrape, world, arg, file, pc, proxyVars,
                    results, loopVars, req, runVars, http_attempts, writes,
                    events, svcVars >>

SpecDescription == InitDescription /\ [][ApplyDescription]_vars

\* The text the description comes from: the meta content as written in the
\* page when it has a non-blank one, else the text of the first content
\* element found.
FromMeta == arg.og # None /\ arg.og[1] # None /\ Strip(arg.og[1][1]) # <<>>

FromContent == ~FromMeta /\ FoundSelectors(arg) # {}

FirstContentText ==
    LET found == FoundSelectors(arg)
        i == CHOOSE x \in found : \A y \in found : x <= y
    IN  GetText(arg.content[ContentSelectors[i]][1])

SourceText == IF FromMeta THEN Strip(arg.og[1][1]) ELSE FirstContentText

\* C22: whatever the description comes from (page metadata or a content
\* element), it is at most DescriptionLimit characters of the source text,
\* followed by the ellipsis only when the source text was longer.
C22_DescriptionBound ==
    (res # <<>> /\ (FromMeta \/ FromContent)) =>
        LET d == res[1].description
        IN  \/ /\ Len(SourceText) <= DescriptionLimit
               /\ d = SourceText
            \/ /\ Len(SourceText) > DescriptionLimit
               /\ d = SubSeq(SourceText, 1, DescriptionLimit) \o Ellipsis

\* C23: a description taken from a content element whose text has L
\* characters is the first DescriptionLimit characters and the ellipsis when
\* L > DescriptionLimit, is the text itself when L <= DescriptionLimit, and
\* full_content is the whole text in both cases.
C23_ContentTruncation ==
    (res # <<>> /\ FromContent) =>
        LET text == FirstContentText
        IN  /\ res[1].full_content = text
            /\ Len(text) > DescriptionLimit =>
                  res[1].description =
                      SubSeq(text, 1, DescriptionLimit) \o Ellipsis
            /\ Len(text) <= DescriptionLimit => res[1].description = text

\* A content text of exactly DescriptionLimit characters was kept whole.
C23_Witness ==
    /\ res # <<>>
    /\ FromContent
    /\ Len(FirstContentText) = DescriptionLimit
    /\ res[1].description = FirstContentText
    /\ res[1].full_content = FirstContentText

(***************************************************************************)
(* The PDF links a detail page opens from a script (onclick="open_doc(..)"),*)
(* character by character.  A character outside ASCII is written by its    *)
(* name ("e_grave" is the letter e with a grave accent, "ain" "ra" "ba"    *)
(* "ya" are the four letters of the Arabic word for Arabic).               *)
(***************************************************************************)
UpperCase ==
    << "A", "B", "C", "D", "E", "F", "G", "H", "I", "J", "K", "L", "M", "N",
       "O", "P", "Q", "R", "S", "T", "U", "V", "W", "X", "Y", "Z", "E_acute" >>

LowerCase ==
    << "a", "b", "c", "d", "e", "f", "g", "h", "i", "j", "k", "l", "m", "n",
       "o", "p", "q", "r", "s", "t", "u", "v", "w", "x", "y", "z", "e_acute" >>

\* str.lower()
Lower(text) ==
    [i \in 1..Len(text) |->
        IF \E k \in 1..Len(UpperCase) : UpperCase[k] = text[i]
        THEN LowerCase[CHOOSE k \in 1..Len(UpperCase) : UpperCase[k] = text[i]]
        ELSE text[i]]

\* keyword in text
Contains(text, keyword) ==
    \E i \in 1..(Len(text) - Len(keyword) + 1) :
        SubSeq(text, i, i + Len(keyword) - 1) = keyword

\* pdf_url.split('/')[-1]
LastSegment(pdf_url) ==
    LET slashes == {i \in 1..Len(pdf_url) : pdf_url[i] = "/"}
    IN  IF slashes = {} THEN pdf_url
        ELSE SubSeq(pdf_url,
                    (CHOOSE i \in slashes : \A j \in slashes : j <= i) + 1,
                    Len(pdf_url))

ArabicKeywords ==
    { << "a", "r" >>,
      << "a", "r", "a", "b", "e" >>,
      << "a", "r", "a", "b", "i", "c" >>,
      << "ain", "ra", "ba", "ya" >> }

SynthesisTitleKeywords ==
    { << "s", "y", "n", "t", "h", "e_grave", "s", "e" >>,
      << "s", "y", "n", "t", "h", "e", "s", "e" >>,
      << "s", "y", "n", "t", "h", "e", "s", "i", "s" >>,
      << "r", "e", "s", "u", "m", "e" >>,
      << "s", "u", "m", "m", "a", "r", "y" >> }

SynthesisUrlKeywords ==
    { << "s", "y", "n", "t", "h", "e", "s", "e" >>,
      << "s", "y", "n", "t", "h", "e_grave", "s", "e" >> }

FrenchKeywords ==
    { << "f", "r" >>,
      << "f", "r", "a", "n", "c_cedilla", "a", "i", "s" >> }

\* The title of the link: the text of the h2.widthTitle of the enclosing
\* div.item when there is one, else the file name.  The container is None
\* (no enclosing div.item), Some(None) (a div.item without such a heading)
\* or Some(Some(text)).
PdfTitle(pdf_url, container) ==
    IF container # None /\ container[1] # None
    THEN Strip(container[1][1])
    ELSE LastSegment(pdf_url)

\* A variant that looks for the French markers first.
OnclickFileInfoFrenchFirst(pdf_url, container) ==
    LET pdf_title == PdfTitle(pdf_url, container)
        is_arabic == \E k \in ArabicKeywords : Contains(Lower(pdf_title), k)
        is_synthesis ==
            \/ \E k \in SynthesisTitleKeywords : Contains(Lower(pdf_title), k)
            \/ \E k \in SynthesisUrlKeywords : Contains(Lower(pdf_url), k)
        is_french == \E k \in FrenchKeywords : Contains(Lower(pdf_title), k)
    IN  [url |-> pdf_url,
         filename |-> LastSegment(pdf_url),
         title |-> pdf_title,
         type |-> "pdf",
         language |-> IF is_french THEN "french"
                      ELSE IF is_arabic THEN "arabic" ELSE "unknown",
         document_type |-> IF is_synthesis THEN "synthesis" ELSE "main_report"]

\* The file_info of one onclick element.
OnclickFileInfo(pdf_url, container) ==
    LET pdf_title == PdfTitle(pdf_url, container)
        is_arabic == \E k \in ArabicKeywords : Contains(Lower(pdf_title), k)
        is_synthesis ==
            \/ \E k \in SynthesisTitleKeywords : Contains(Lower(pdf_title), k)
            \/ \E k \in SynthesisUrlKeywords : Contains(Lower(pdf_url), k)
        is_french == \E k \in FrenchKeywords : Contains(Lower(pdf_title), k)
    IN  [url |-> pdf_url,
         filename |-> LastSegment(pdf_url),
         title |-> pdf_title,
         type |-> "pdf",
         language |-> IF is_arabic THEN "arabic"
                      ELSE IF is_french THEN "french" ELSE "unknown",
         document_type |-> IF is_synthesis THEN "synthesis" ELSE "main_report"]

RapportFr == << "r", "a", "p", "p", "o", "r", "t", "_", "f", "r", ".", "p", "d", "f" >>

OnclickUrls ==
    { RapportFr,
      << "/", "d", "o", "c", "s", "/", "r", "a", "p", "p", "o", "r", "t", "_", "a", "r", ".", "p", "d", "f" >>,
      << "r", "a", "p", "p", "o", "r", "t", "_", "a", "r", "_", "s", "y", "n", "t", "h", "e", "s", "e", ".", "p", "d", "f" >>,
      << "/", "s", "y", "n", "t", "h", "e", "s", "e", "/", "r", "a", "p", "p", "o", "r", "t", ".", "p", "d", "f" >>,
      << "/", "s", "u", "m", "m", "a", "r", "y", "/", "r", "a", "p", "p", "o", "r", "t", ".", "p", "d", "f" >>,
      << "R", "A", "P", "P", "O", "R", "T", "_", "F", "R", ".", "P", "D", "F" >>,
      << "r", "a", "p", "p", "o", "r", "t", ".", "p", "d", "f" >>,
      << "/", "d", "o", "c", "s", "/", "s", "y", "n", "t", "h", "e_grave", "s", "e", ".", "p", "d", "f" >>,
      << "n", "o", "t", "e", "_", "a", "r", "_", "f", "r", ".", "p", "d", "f" >>,
      << "/", "f", "r", "/", "r", "e", "s", "u", "m", "e", ".", "p", "d", "f" >> }

Headings ==
    { << "R", "a", "p", "p", "o", "r", "t", " ", "a", "n", "n", "u", "e", "l" >>,
      << "R", "a", "p", "p", "o", "r", "t", " ", "p", "a", "r", "t", "i", "c", "u", "l", "i", "e", "r" >>,
      << "S", "y", "n", "t", "h", "e_grave", "s", "e" >>,
      << "R", "e_acute", "s", "u", "m", "e_acute" >>,
      << "S", "u", "m", "m", "a", "r", "y", " ", "F", "R" >>,
      << "V", "e", "r", "s", "i", "o", "n", " ", "a", "r", "a", "b", "e" >>,
      << "V", "e", "r", "s", "i", "o", "n", " ", "f", "r", "a", "n", "c_cedilla", "a", "i", "s", "e" >>,
      << "ain", "ra", "ba", "ya" >>,
      << "S", "y", "n", "t", "h", "e", "s", "i", "s" >>,
      << " ", "F", "R", " " >>,
      <<>>,
      << "A", "r", "a", "b", "i", "c" >>,
      << "r", "e", "s", "u", "m", "e" >>,
      << "T", "e", "x", "t", "e" >> }

OnclickContainers ==
    {None, Some(None)} \cup {Some(Some(h)) : h \in Headings}

InitPdf ==
    /\ InitPure
    /\ arg \in {[pdf_url |-> u, container |-> c] :
                    u \in OnclickUrls, c \in OnclickContainers}

ApplyPdf ==
    /\ pc = "pure"
    /\ res = <<>>
    /\ res' = << OnclickFileInfo(arg.pdf_url, arg.container) >>
    /\ UNCHANGED << config, force_rescrape, world, arg, file, pc, proxyVars,
                    results, loopVars, req, runVars, http_attempts, writes,
                    events, svcVars >>

SpecPdf == InitPdf /\ [][ApplyPdf]_vars

\* Some keyword of the set occurs in the text, whatever the case of the
\* letters of the text.
HasKeyword(text, keywords) == \E k \in keywords : Contains(Lower(text), k)

NoHeading == arg.container = None \/ arg.container[1] = None

IdentityFields ==
    {"title", "date", "year", "category", "url", "scraped_at", "source_url"}

\* C25: after the merge of its detail fields a record has the title, date,
\* year, category, url, scraped_at and source_url listing extraction gave
\* it; a date found in the detail page is kept under publication_details
\* only; so the key deduplication uses is the key of the listing record.
C25_IdentityFieldsKept ==
    /\ Len(publications) = Len(Recorded)
    /\ \A k \in 1..Len(Recorded) :
          LET listing == ExtractPublicationFromItem(Recorded[k].item, BaseUrl)[1]
              p == publications[k]
          IN  /\ \A f \in IdentityFields : p[f] = listing[f]
              /\ PubKey(p) = PubKey(listing)
              /\ (Recorded[k].detail = "merged"
                    /\ Recorded[k].page[1].extracted_date # None) =>
                    p.publication_details.extracted_date =
                        Recorded[k].page[1].extracted_date[1]

\* A record was merged with a detail page whose text holds another date than
\* the listing gave.
C25_Witness ==
    \E k \in 1..Len(Recorded) :
        /\ Recorded[k].detail = "merged"
        /\ Recorded[k].page[1].extracted_date = Some(ExtractedDate)
        /\ publications[k].publication_details = [extracted_date |-> ExtractedDate]
        /\ publications[k].date # ExtractedDate
        /\ publications[k].date # <<>>
        /\ publications[k].description = "D"

\* The keys only the detail fields bring.
DetailOnlyKeys(page) == (DOMAIN ExtractDetailFields(page)) \ ListingKeys

\* C26: when the extraction of a detail page throws after fields were
\* computed from the page, none of them reaches the record: the record is
\* the listing record, with the listing keys only.
C26_NoPartialMerge ==
    \A k \in 1..Len(Recorded) :
        Recorded[k].detail = "parse_raised" =>
            LET listing == ExtractPublicationFromItem(Recorded[k].item, BaseUrl)[1]
                computed == ExtractDetailFields(Recorded[k].page[1])
                p == publications[k]
            IN  /\ DOMAIN p = ListingKeys
                /\ DetailOnlyKeys(Recorded[k].page[1]) \cap DOMAIN p = {}
                /\ \A f \in ListingKeys : p[f] = listing[f]
                /\ \A f \in ListingKeys \cap DOMAIN computed :
                      computed[f] # listing[f] => p[f] # computed[f]

\* A detail page with a description and a PDF link threw, and the record was
\* returned without them.
C26_Witness ==
    /\ outcome = "Completed"
    /\ \E k \in 1..Len(Recorded) :
          /\ Recorded[k].detail = "parse_raised"
          /\ Recorded[k].page[1].description = "D"
          /\ Recorded[k].page[1].pdf_files # <<>>
          /\ publications[k].description = ""
          /\ publications[k].pdf_url = ""
          /\ "pdf_files" \notin DOMAIN publications[k]

(***************************************************************************)
(* Claims about a snapshot that cannot be used.                            *)
(***************************************************************************)
\* The snapshot file existed when run() began, but could not be opened or
\* parsed, held no JSON object, or held an object without total_items.
Unusable(f) ==
    \/ f.kind \in {"unreadable", "notobject"}
    \/ f.kind = "object" /\ f.total_items = None

\* C29: with the force flag off and a snapshot file that exists but cannot
\* be read, is no JSON object or has no total_items, the check of the
\* existing count gives 0 without raising and run() goes on to request the
\* listing as it does without a snapshot file: it is never skipped, and it
\* fails only after requests were made.
C29_UnusableSnapshot ==
    (Started /\ ~force_rescrape /\ Unusable(run_file)) =>
        /\ Len(events) >= 2
        /\ events[1] = Event("check", 0)
        /\ events[2] = Event("listing_start", 0)
        /\ RunDecision(force_rescrape, run_file)
              = RunDecision(force_rescrape, MissingFile)
        /\ outcome # "Skipped"
        /\ ListingRequested
        /\ Ended => http_attempts > 0

\* A run that began on an unreadable snapshot file completed and replaced it.
C29_Witness ==
    /\ ~force_rescrape
    /\ run_file = UnreadableFile
    /\ outcome = "Completed"
    /\ writes = 1
    /\ file.kind = "object"

(***************************************************************************)
(* The rate limiter of the API (RateLimiter).                              *)
(*                                                                         *)
(* arg is the limiter and the clock: [max_requests, requests, time], where *)
(* requests maps each client id seen so far to the list of the times of    *)
(* its recorded calls.  res is the list of the calls made, each with its   *)
(* client, its time, whether it was accepted, and the requests dict before *)
(* and after it.  check_rate_limit has no await, so a call is one step.    *)
(***************************************************************************)
\* The age, in seconds, from which a recorded call is forgotten.
WindowSeconds == 60

\* A variant that still counts a call that is exactly WindowSeconds old.
CheckRateLimitInclusive(limiter, client_id, current_time) ==
    LET known == IF client_id \in DOMAIN limiter.requests
                 THEN limiter.requests[client_id] ELSE <<>>
        recent == SelectSeq(known,
                            LAMBDA req_time :
                                current_time - req_time <= WindowSeconds)
    IN  IF Len(recent) >= limiter.max_requests
        THEN [raised |-> TRUE,
              requests |-> DictUpdate(limiter.requests, client_id :> recent)]
        ELSE [raised |-> FALSE,
              requests |-> DictUpdate(limiter.requests,
                               client_id :> Append(recent, current_time))]

\* check_rate_limit(client_id) called when time.time() is current_time:
\* whether it raises the 429 error, and the requests dict it leaves.
CheckRateLimit(limiter, client_id, current_time) ==
    LET known == IF client_id \in DOMAIN limiter.requests
                 THEN limiter.requests[client_id] ELSE <<>>
        recent == SelectSeq(known,
                            LAMBDA req_time :
                                current_time - req_time < WindowSeconds)
    IN  IF Len(recent) >= limiter.max_requests
        THEN [raised |-> TRUE,
              requests |-> DictUpdate(limiter.requests, client_id :> recent)]
        ELSE [raised |-> FALSE,
              requests |-> DictUpdate(limiter.requests,
                               client_id :> Append(recent, current_time))]

\* The largest max_requests a limiter is built with, and the number of calls
\* made to it.
MaxRequests == 2

MaxCalls == 4

ClientIds == {"default", "other"}

\* By how much the clock advances between two calls.
ClockSteps == {0, 1, WindowSeconds - 1, WindowSeconds}

InitRate ==
    /\ InitPure
    /\ \E m \in 0..MaxRequests :
          arg = [max_requests |-> m, requests |-> EmptyDict, time |-> 0]

CallRateLimit ==
    /\ pc = "pure"
    /\ Len(res) < MaxCalls
    /\ \E client_id \in ClientIds, step \in ClockSteps :
          LET current_time == arg.time + step
              r == CheckRateLimit(arg, client_id, current_time)
          IN  /\ arg' = [arg EXCEPT !.requests = r.requests,
                                    !.time = current_time]
              /\ res' = Append(res, [client_id |-> client_id,
                                     time |-> current_time,
                                     accepted |-> ~r.raised,
                                     before |-> arg.requests,
                                     after |-> r.requests])
    /\ UNCHANGED << config, force_rescrape, world, file, pc, proxyVars,
                    results, loopVars, req, runVars, http_attempts, writes,
                    events, svcVars >>

SpecRate == InitRate /\ [][CallRateLimit]_vars

\* The calls of a client that were accepted among the first n calls.
AcceptedBefore(client_id, n) ==
    {k \in 1..(n - 1) : res[k].client_id = client_id /\ res[k].accepted}

\* The recorded calls of a client in a requests dict.
CountOf(requests, client_id) ==
    IF client_id \in DOMAIN requests THEN Len(requests[client_id]) ELSE 0

\* C30: the times of the calls being non-decreasing, no client has more
\* than max_requests calls accepted in any window of WindowSeconds seconds;
\* a call is rejected exactly when max_requests accepted calls of its client
\* are less than WindowSeconds old; a rejected call adds no entry to the
\* list of its client; and a call leaves the lists of the other clients as
\* they were.
C30_RateLimit ==
    /\ \A k \in 2..Len(res) : res[k - 1].time <= res[k].time
    /\ \A c \in ClientIds :
          \A start \in 0..arg.time :
              Cardinality({k \in AcceptedBefore(c, Len(res) + 1) :
                              /\ start <= res[k].time
                              /\ res[k].time < start + WindowSeconds})
                  <= arg.max_requests
    /\ \A n \in 1..Len(res) :
          LET call == res[n]
              young == {k \in AcceptedBefore(call.client_id, n) :
                           call.time - res[k].time < WindowSeconds}
          IN  /\ ~call.accepted <=> Cardinality(young) >= arg.max_requests
              /\ ~call.accepted =>
                    /\ CountOf(call.after, call.client_id)
                          <= CountOf(call.before, call.client_id)
                    /\ CountOf(call.after, call.client_id) = Cardinality(young)
              /\ call.accepted =>
                    CountOf(call.after, call.client_id) = Cardinality(young) + 1
              /\ \A c \in ClientIds \ {call.client_id} :
                    /\ (c \in DOMAIN call.after) <=> (c \in DOMAIN call.before)
                    /\ c \in DOMAIN call.before => call.after[c] = call.before[c]

\* A client was rejected at its limit while the other one was accepted, and
\* was accepted again once its calls were WindowSeconds old.
C30_Witness ==
    /\ arg.max_requests = 1
    /\ Len(res) = 4
    /\ res[1].client_id = "default" /\ res[1].accepted
    /\ res[2].client_id = "default" /\ ~res[2].accepted
    /\ res[2].time - res[1].time = WindowSeconds - 1
    /\ res[3].client_id = "other" /\ res[3].accepted
    /\ res[4].client_id = "default" /\ res[4].accepted
    /\ res[4].time - res[1].time = WindowSeconds

(***************************************************************************)
(* The service object under several callers.                               *)
(*                                                                         *)
(* start_scraping is taken statement by statement; the run of the scraper  *)
(* is one step that ends with the boolean run() returns.  start_scraping   *)
(* and stop_scraping are coroutines without await: on one event loop       *)
(* (scheduling = "loop") a call runs from its first statement to its       *)
(* return before another one starts; when the service is called from       *)
(* several threads (scheduling = "threads") the statements interleave.     *)
(* res is the list of the responses the calls returned, in order.          *)
(***************************************************************************)
\* The start_scraping calls made in all, and the stop_scraping calls.
MaxStarts == 3

MaxStops == 1

\* The callers of the service: two threads, or two requests on the loop.
Callers == {1, 2}

\* A caller that has not called: pc is where its call is; number counts its
\* calls; results is self.results of the scraper its call built; runs_on is
\* the scraper its run() executes on; the other fields remember what the
\* call saw and did.
NoCall ==
    [pc |-> "idle", number |-> 0, message |-> "", response |-> None,
     results |-> <<>>, runs_on |-> None, created |-> FALSE,
     runs_at_check |-> {}, admitted_at_check |-> {}, released |-> None]

InProgress(t) == calls[t].pc \notin {"idle", "returned"}

\* Between `self.is_running = True` and the return.
Admitted(t) == calls[t].pc \in {"flagged", "constructed", "running", "finishing"}

Running(t) == calls[t].pc = "running"

\* The start_scraping calls made so far: those that returned and those in
\* progress.
StartsMade == Len(res) + Cardinality({t \in Callers : InProgress(t)})

\* Whether caller t may take a step now.
MayStep(t) ==
    scheduling = "threads" \/ \A u \in Callers \ {t} : ~InProgress(u)

\* What a successful run leaves in self.results: nothing when it was
\* skipped, else the records.
ScrapedPublication == [NewPublication(BaseUrl) EXCEPT !.title = <<"N">>]

RunResults == {<<>>, << ScrapedPublication >>}

Returned(t, message, success, count) ==
    [caller |-> t, message |-> message,
     response |-> ScrapingResponse(success, count)]

\* A variant without the finally clause: the flag is reset at the normal
\* end of the call only.
IsRunningAfterCallNoFinally(raised) == raised

\* self.is_running once start_scraping has left its try statement, the
\* except clause taken or not.
IsRunningAfterCall(raised) == FALSE

\* `if self.is_running: return ScrapingResponse(success=False, ...)`
StartScrapingCheck(t) ==
    /\ calls[t].pc \in {"idle", "returned"}
    /\ StartsMade < MaxStarts
    /\ MayStep(t)
    /\ LET call == [NoCall EXCEPT
                       !.number = calls[t].number + 1,
                       !.runs_at_check = {u \in Callers : Running(u)},
                       !.admitted_at_check = {u \in Callers : Admitted(u)}]
       IN  IF is_running
           THEN /\ calls' = [calls EXCEPT ![t] =
                                [call EXCEPT
                                    !.pc = "returned",
                                    !.message = "already_running",
                                    !.response =
                                        Some(ScrapingResponse(FALSE, None))]]
                /\ res' = Append(res, Returned(t, "already_running", FALSE, None))
           ELSE /\ calls' = [calls EXCEPT ![t] = [call EXCEPT !.pc = "admitted"]]
                /\ UNCHANGED res
    /\ UNCHANGED << config, force_rescrape, world, arg, file, pc, proxyVars,
                    results, loopVars, req, runVars, http_attempts, writes,
                    events, last_scraped_data, response, is_running, scraper,
                    last_run, stops, scheduling >>

\* `self.is_running = True`
SetRunning(t) ==
    /\ calls[t].pc = "admitted"
    /\ MayStep(t)
    /\ is_running' = TRUE
    /\ calls' = [calls EXCEPT ![t].pc = "flagged"]
    /\ UNCHANGED << config, force_rescrape, world, arg, res, file, pc,
                    proxyVars, results, loopVars, req, runVars, http_attempts,
                    writes, events, last_scraped_data, response, scraper,
                    last_run, stops, scheduling >>

\* `self.scraper = CourtOfAccountsScraper(...)`: the handle is set, or the
\* constructor raises and the except clause builds the response.
CreateScraper(t) ==
    /\ calls[t].pc = "flagged"
    /\ MayStep(t)
    /\ \E raises \in BOOLEAN :
          IF raises
          THEN /\ calls' = [calls EXCEPT ![t].pc = "finishing",
                                         ![t].message = "error",
                                         ![t].response =
                                             Some(ScrapingResponse(FALSE, None))]
               /\ UNCHANGED scraper
          ELSE /\ calls' = [calls EXCEPT ![t].pc = "constructed",
                                         ![t].created = TRUE,
                                         ![t].results = <<>>]
               /\ scraper' = Some(t)
    /\ UNCHANGED << config, force_rescrape, world, arg, res, file, pc,
                    proxyVars, results, loopVars, req, runVars, http_attempts,
                    writes, events, last_scraped_data, response, is_running,
                    last_run, stops, scheduling >>

\* `self.scraper.run(...)` is called: on the scraper the handle names now, or
\* AttributeError when the handle is None.
CallRun(t) ==
    /\ calls[t].pc = "constructed"
    /\ MayStep(t)
    /\ IF scraper = None
       THEN calls' = [calls EXCEPT ![t].pc = "finishing",
                                   ![t].message = "error",
                                   ![t].response =
                                       Some(ScrapingResponse(FALSE, None))]
       ELSE calls' = [calls EXCEPT ![t].pc = "running", ![t].runs_on = scraper]
    /\ UNCHANGED << config, force_rescrape, world, arg, res, file, pc,
                    proxyVars, results, loopVars, req, runVars, http_attempts,
                    writes, events, last_scraped_data, response, is_running,
                    scraper, last_run, stops, scheduling >>

\* run() returns; last_run is set; on success the results of the scraper the
\* handle names are kept (AttributeError when the handle is None).
RunReturns(t) ==
    /\ calls[t].pc = "running"
    /\ MayStep(t)
    /\ last_run' = Some(IF last_run = None THEN 1 ELSE last_run[1] + 1)
    /\ \E success \in BOOLEAN, rs \in RunResults :
          LET ran == [calls EXCEPT ![calls[t].runs_on[1]].results =
                                       IF success THEN rs ELSE @]
          IN  IF ~success
              THEN /\ calls' = [ran EXCEPT ![t].pc = "finishing",
                                           ![t].message = "failed",
                                           ![t].response =
                                               Some(ScrapingResponse(FALSE, None))]
                   /\ UNCHANGED last_scraped_data
              ELSE IF scraper = None
              THEN /\ calls' = [ran EXCEPT ![t].pc = "finishing",
                                           ![t].message = "error",
                                           ![t].response =
                                               Some(ScrapingResponse(FALSE, None))]
                   /\ UNCHANGED last_scraped_data
              ELSE /\ last_scraped_data' = ran[scraper[1]].results
                   /\ calls' = [ran EXCEPT
                                   ![t].pc = "finishing",
                                   ![t].message = "completed",
                                   ![t].response =
                                       Some(ScrapingResponse(TRUE,
                                                Some(Len(ran[scraper[1]].results))))]
    /\ UNCHANGED << config, force_rescrape, world, arg, res, file, pc,
                    proxyVars, results, loopVars, req, runVars, http_attempts,
                    writes, events, response, is_running, scraper, stops,
                    scheduling >>

\* The finally clause, and the return of the response.
Finally(t) ==
    /\ calls[t].pc = "finishing"
    /\ MayStep(t)
    /\ is_running' = IsRunningAfterCall(calls[t].message = "error")
    /\ scraper' = None
    /\ calls' = [calls EXCEPT ![t].pc = "returned",
                              ![t].released =
                                  Some([is_running |-> is_running',
                                        scraper |-> scraper'])]
    /\ res' = Append(res, [caller |-> t, message |-> calls[t].message,
                           response |-> calls[t].response[1]])
    /\ UNCHANGED << config, force_rescrape, world, arg, file, pc, proxyVars,
                    results, loopVars, req, runVars, http_attempts, writes,
                    events, last_scraped_data, response, last_run, stops,
                    scheduling >>

\* stop_scraping, as one step.
StopScraping ==
    /\ stops < MaxStops
    /\ scheduling = "threads" \/ \A u \in Callers : ~InProgress(u)
    /\ stops' = stops + 1
    /\ IF ~is_running
       THEN UNCHANGED << is_running, scraper >>
       ELSE /\ is_running' = FALSE
            /\ scraper' = None
    /\ UNCHANGED << config, force_rescrape, world, arg, res, file, pc,
                    proxyVars, results, loopVars, req, runVars, http_attempts,
                    writes, events, last_scraped_data, response, last_run,
                    calls, scheduling >>

NextService ==
    \/ \E t \in Callers :
          \/ StartScrapingCheck(t)
          \/ SetRunning(t)
          \/ CreateScraper(t)
          \/ CallRun(t)
          \/ RunReturns(t)
          \/ Finally(t)
    \/ StopScraping

\* The service as its constructor leaves it, the records of a snapshot file
\* loaded.
InitService ==
    /\ config = [enable_proxies |-> FALSE, proxy_rotation |-> TRUE,
                 proxies |-> <<>>, retry_attempts |-> 0, delay |-> 0]
    /\ force_rescrape = FALSE
    /\ world = [max_items |-> 0, max_runs |-> 0, page_args |-> {}]
    /\ file = ObjectFile(Some(Number(1)), <<OldPublication>>)
    /\ pc = "service"
    /\ Fresh
    /\ calls = [t \in Callers |-> NoCall]
    /\ scheduling \in {"loop", "threads"}
    /\ arg = None
    /\ res = <<>>

SpecService == InitService /\ [][NextService]_vars

Quiescent == \A t \in Callers : ~InProgress(t)

\* C28: is_running is true only while some start_scraping call is between
\* its admission and its return; a call that was admitted leaves, when it
\* returns, is_running false and the scraper handle null, whether its run
\* succeeded or failed or something raised; so with no call in progress the
\* flag is down and the handle null, and a start_scraping is refused only
\* while an admitted call has not returned.
C28_FlagReleased ==
    /\ is_running => \E t \in Callers : Admitted(t)
    /\ Quiescent => (~is_running /\ scraper = None)
    /\ \A t \in Callers :
          /\ (calls[t].pc = "returned" /\ calls[t].message # "already_running")
                => calls[t].released =
                      Some([is_running |-> FALSE, scraper |-> None])
          /\ calls[t].message = "already_running"
                => calls[t].admitted_at_check # {}

\* On the event loop: a call whose constructor raised, one whose run failed
\* and one whose run succeeded returned one after the other, each admitted.
C28_Witness ==
    /\ scheduling = "loop"
    /\ Quiescent
    /\ ~is_running
    /\ scraper = None
    /\ Len(res) = 3
    /\ res[1].message = "error"
    /\ res[2].message = "failed"
    /\ res[3].message = "completed"

=============================================================================
